---- MODULE Spec2Model ----
(***************************************************************************)
(* Model of context_practice/context_engine.py (tokenize, build_index,      *)
(* search, precision_at_k), of TaskService in context_practice/oops.py, of *)
(* DocumentChunker._chunk_fixed_size in context_practice/chunker.py and of *)
(* CircularBuffer in iterators.py.  Text is a sequence of one-character    *)
(* strings; a Python dict is an insertion-ordered sequence of [k, v]       *)
(* entries; None is the empty set and an int L is the set {L}.             *)
(***************************************************************************)
EXTENDS Integers, Sequences, FiniteSets, TLC

\* build_index and search
VARIABLES corpus, index, documents, query, max_results, user_access_level,
          results, pc
\* tokenize
VARIABLES tok_text, tok_tokens
\* precision_at_k
VARIABLES gold_relevant, retrieved, prec_k, precision
\* TaskService over an InMemoryTaskRepository
VARIABLES starting_id, next_id, tasks, arg_priority, outcome, created
\* DocumentChunker._chunk_fixed_size
VARIABLES chunker, document, sp, ep, id_, chunks, chunk_pc
\* CircularBuffer
VARIABLES buffer_size, buffer, buffer_index, buffer_count, added, iterated

searchVars == <<corpus, index, documents, query, max_results, user_access_level,
                results, pc>>
tokenizeVars == <<tok_text, tok_tokens>>
precisionVars == <<gold_relevant, retrieved, prec_k, precision>>
taskVars == <<starting_id, next_id, tasks, arg_priority, outcome, created>>
chunkVars == <<chunker, document, sp, ep, id_, chunks, chunk_pc>>
bufferVars == <<buffer_size, buffer, buffer_index, buffer_count, added, iterated>>
vars == <<searchVars, tokenizeVars, precisionVars, taskVars, chunkVars, bufferVars>>

\* ---------------------------------------------------------------- bounds
MaxDocs == 2
MaxLevel == 2
MaxQueryPieces == 2
MaxResults == 2
MaxTextLen == 4
MaxRetrieved == 3
MaxK == 4
MaxTasks == 3
MaxDocLen == 4
MaxChunkSize == 3
MaxOverlap == 3
MaxBufSize == 3
MaxAdds == 4
MaxItem == 2

\* Document ids as sequences of digit characters: "1", "10", "2".
DocIds == {<<1>>, <<1, 0>>, <<2>>}
\* Query strings are concatenations of these pieces: "a," and "B ".
QueryPieces == {<<"a", ",">>, <<"B", " ">>}
\* (title, body) pairs of the documents.
DocTexts == {<< <<"A">>, <<"a">> >>, << <<>>, <<"b", ",", "a">> >>}

\* ------------------------------------------------------ Python primitives
None == {}
Some(n) == {n}
\* the int held by a non-None optional
Val(o) == CHOOSE n \in o : TRUE
\* Python truthiness of an int: 0 is falsy
IntTruthy(n) == n # 0
\* Python truthiness of int | None: None and 0 are falsy
OptTruthy(o) == o # None /\ IntTruthy(Val(o))

\* dict: key lookup, membership, item assignment (a new key is appended, an
\* existing key keeps its position)
DictPos(d, k) == CHOOSE i \in 1..Len(d) : d[i].k = k
DictHas(d, k) == \E i \in 1..Len(d) : d[i].k = k
DictGet(d, k) == d[DictPos(d, k)].v
DictSet(d, k, v) ==
    IF DictHas(d, k)
    THEN [d EXCEPT ![DictPos(d, k)] = [k |-> k, v |-> v]]
    ELSE Append(d, [k |-> k, v |-> v])

\* str < str: lexicographic comparison of character sequences
RECURSIVE StrLess(_, _)
StrLess(s, t) ==
    IF t = <<>> THEN FALSE
    ELSE IF s = <<>> THEN TRUE
    ELSE IF Head(s) # Head(t) THEN Head(s) < Head(t)
    ELSE StrLess(Tail(s), Tail(t))

\* seq[:n] for any integer n
SliceTo(s, n) ==
    IF n >= 0
    THEN SubSeq(s, 1, IF n < Len(s) THEN n ELSE Len(s))
    ELSE SubSeq(s, 1, IF Len(s) + n > 0 THEN Len(s) + n ELSE 0)

\* ---------------------------------------------------------------- tokenize
\* str.lower() on one character
Lower(c) == IF c = "A" THEN "a" ELSE IF c = "B" THEN "b" ELSE c
\* str.isalnum() on one character
IsAlnum(c) == c \in {"a", "b", "A", "B", "0", "1"}
\* a loop that lowercases and keeps every character
NormalizeKeepsAll(text) == [i \in 1..Len(text) |-> Lower(text[i])]
\* the loop of tokenize: every character that is neither alphanumeric nor a
\* space becomes a space
Normalize(text) ==
    [i \in 1..Len(text) |->
        IF IsAlnum(Lower(text[i])) \/ Lower(text[i]) = " "
        THEN Lower(text[i]) ELSE " "]
\* str.split(): maximal runs of non-whitespace characters
RECURSIVE Split(_, _, _)
Split(text, cur, acc) ==
    IF text = <<>>
    THEN IF cur = <<>> THEN acc ELSE Append(acc, cur)
    ELSE IF Head(text) = " "
         THEN Split(Tail(text), <<>>, IF cur = <<>> THEN acc ELSE Append(acc, cur))
         ELSE Split(Tail(text), Append(cur, Head(text)), acc)
tokenize(text) == Split(Normalize(text), <<>>, <<>>)

\* a counter that records presence only
RECURSIVE CounterPresence(_, _)
CounterPresence(tokens, acc) ==
    IF tokens = <<>> THEN acc
    ELSE CounterPresence(Tail(tokens), DictSet(acc, Head(tokens), 1))
\* ------------------------------------------------------------- build_index
\* Counter(tokens): one entry per distinct token, in order of first occurrence
RECURSIVE Counter(_, _)
Counter(tokens, acc) ==
    IF tokens = <<>> THEN acc
    ELSE Counter(Tail(tokens),
                 DictSet(acc, Head(tokens),
                         IF DictHas(acc, Head(tokens))
                         THEN DictGet(acc, Head(tokens)) + 1 ELSE 1))

\* defaultdict.__getitem__: a missing key is inserted with the default value
DefaultDict(d, k, default) == IF DictHas(d, k) THEN d ELSE Append(d, [k |-> k, v |-> default])
DefaultGet(d, k, default) == IF DictHas(d, k) THEN DictGet(d, k) ELSE default

\* a loop that replaces the inner mapping of the word: index[word] = {doc.id: count}
RECURSIVE IndexCountsOverwrite(_, _, _)
IndexCountsOverwrite(idx, doc_id, counts) ==
    IF counts = <<>> THEN idx
    ELSE IndexCountsOverwrite(
             DictSet(DefaultDict(idx, Head(counts).k, <<>>), Head(counts).k,
                     DictSet(<<>>, doc_id, Head(counts).v)),
             doc_id, Tail(counts))
\* for word, count in counts.items(): if count > 0: index[word][doc.id] = count
RECURSIVE IndexCounts(_, _, _)
IndexCounts(idx, doc_id, counts) ==
    IF counts = <<>> THEN idx
    ELSE LET word == Head(counts).k
             count == Head(counts).v
         IN IndexCounts(
                IF count > 0
                THEN DictSet(DefaultDict(idx, word, <<>>), word,
                             DictSet(DefaultGet(idx, word, <<>>), doc_id, count))
                ELSE idx,
                doc_id, Tail(counts))

\* for doc in documents: ...
RECURSIVE IndexDocs(_, _)
IndexDocs(idx, docs) ==
    IF docs = <<>> THEN idx
    ELSE LET doc == Head(docs)
             text == doc.title \o <<" ">> \o doc.body
             tokens == tokenize(text)
             counts == Counter(tokens, <<>>)
         IN IndexDocs(IndexCounts(idx, doc.id, counts), Tail(docs))

build_index(docs) == IndexDocs(<<>>, docs)

\* ------------------------------------------------------------------ search
\* id2doc = {doc.id: doc for doc in documents}
RECURSIVE Id2Doc(_, _)
Id2Doc(docs, acc) ==
    IF docs = <<>> THEN acc
    ELSE Id2Doc(Tail(docs), DictSet(acc, Head(docs).id, Head(docs)))

\* a restriction check that compares strictly
VisibleStrict(doc, ual) ==
    IF ual = None THEN TRUE ELSE doc.access_level < Val(ual)
\* a restriction check that reads None as level 0
VisibleNoneAsZero(doc, ual) ==
    doc.access_level <= (IF ual = None THEN 0 ELSE Val(ual))
\* the condition under which line 143 or line 145 adds the score
Visible(doc, ual) ==
    IF (~IntTruthy(doc.access_level)) \/ (~OptTruthy(ual))
    THEN TRUE
    ELSE doc.access_level <= Val(ual)

\* an accumulation that makes a new entry for every match
AddScoreAppend(scores, doc_id, score) == Append(scores, [k |-> doc_id, v |-> score])
\* an assignment in place of the augmented assignment
AddScoreAssign(scores, doc_id, score) == DictSet(scores, doc_id, score)
\* scores[doc_id] += score, scores being a defaultdict(int)
AddScore(scores, doc_id, score) ==
    DictSet(scores, doc_id, DefaultGet(scores, doc_id, 0) + score)

\* a loop body that also enters a filtered document, with nothing added
ScoreItemTouch(scores, doc, doc_id, score, ual) ==
    IF Visible(doc, ual) THEN AddScore(scores, doc_id, score)
    ELSE AddScore(scores, doc_id, 0)
\* the if / elif of lines 142-145: the score is added or the item is skipped
ScoreItem(scores, doc, doc_id, score, ual) ==
    IF Visible(doc, ual) THEN AddScore(scores, doc_id, score) ELSE scores

\* for doc_id, score in index[token].items(): ...   (st = [scores, raised]);
\* id2doc[doc_id] raises KeyError for an id the documents do not hold
RECURSIVE ScoreItems(_, _, _, _)
ScoreItems(st, items, id2doc, ual) ==
    IF items = <<>> \/ st.raised THEN st
    ELSE LET doc_id == Head(items).k
             score == Head(items).v
         IN IF ~DictHas(id2doc, doc_id)
            THEN [st EXCEPT !.raised = TRUE]
            ELSE ScoreItems(
                    [st EXCEPT !.scores =
                        ScoreItem(st.scores, DictGet(id2doc, doc_id), doc_id, score, ual)],
                    Tail(items), id2doc, ual)

\* a lookup without the membership test: index[token] raises for a missing key
LookupTokenNoGuard(st, token, idx, id2doc, ual) ==
    IF DictHas(idx, token)
    THEN ScoreItems(st, DictGet(idx, token), id2doc, ual)
    ELSE [st EXCEPT !.raised = TRUE]
\* a lookup without the membership test on a defaultdict: index[token] inserts
\* the missing key
LookupTokenPops(st, token, idx, id2doc, ual) ==
    LET Other(e) == e.k # token
    IN IF DictHas(idx, token)
       THEN ScoreItems([st EXCEPT !.index = SelectSeq(idx, Other)], DictGet(idx, token), id2doc, ual)
       ELSE st
LookupTokenInserts(st, token, idx, id2doc, ual) ==
    LET idx2 == DefaultDict(idx, token, <<>>)
    IN ScoreItems([st EXCEPT !.index = idx2], DictGet(idx2, token), id2doc, ual)
\* if token in index: for ... in index[token].items()
LookupToken(st, token, idx, id2doc, ual) ==
    IF DictHas(idx, token)
    THEN ScoreItems(st, DictGet(idx, token), id2doc, ual)
    ELSE st

\* for token in query_tokens: ...   (st.index is the index object, which the
\* lookups of the loop body may change)
RECURSIVE ScoreTokens(_, _, _, _, _)
ScoreTokens(st, toks, idx, id2doc, ual) ==
    IF toks = <<>> \/ st.raised THEN st
    ELSE LET st2 == LookupToken(st, Head(toks), idx, id2doc, ual)
         IN ScoreTokens(st2, Tail(toks), st2.index, id2doc, ual)

\* a sort key without the doc_id tie-break
KeyLessScoreOnly(a, b) == (0 - a.score) < (0 - b.score)
\* the sort key (-x.score, x.doc_id), compared as Python compares tuples
KeyLess(a, b) ==
    \/ (0 - a.score) < (0 - b.score)
    \/ (0 - a.score) = (0 - b.score) /\ StrLess(a.doc_id, b.doc_id)

\* list.sort is stable: an element goes after the elements it is not less than
RECURSIVE InsertSorted(_, _)
InsertSorted(sorted, x) ==
    IF sorted = <<>> THEN <<x>>
    ELSE IF KeyLess(x, Head(sorted)) THEN <<x>> \o sorted
    ELSE <<Head(sorted)>> \o InsertSorted(Tail(sorted), x)
\* a result list left in the order of scores.items()
SortResultsKeepsOrder(rs, sorted) == sorted \o rs
RECURSIVE SortResults(_, _)
SortResults(rs, sorted) ==
    IF rs = <<>> THEN sorted
    ELSE SortResults(Tail(rs), InsertSorted(sorted, Head(rs)))

\* for doc_id, score in scores.items(): results.append(SearchResult(...))
ToResults(scores) ==
    [i \in 1..Len(scores) |-> [doc_id |-> scores[i].k, score |-> scores[i].v]]

\* a slice that keeps one entry too many
TruncateOffByOne(rs, n) == SliceTo(rs, n + 1)
\* return results[:max_results]
Truncate(rs, n) == SliceTo(rs, n)

\* search: [raised |-> a KeyError escaped, value |-> the returned list,
\* index |-> the caller's index object after the call]
search(idx, docs, q, n, ual) ==
    LET query_tokens == tokenize(q)
        id2doc == Id2Doc(docs, <<>>)
        st == ScoreTokens([scores |-> <<>>, raised |-> FALSE, index |-> idx],
                          query_tokens, idx, id2doc, ual)
    IN IF st.raised
       THEN [raised |-> TRUE, value |-> <<>>, index |-> st.index]
       ELSE [raised |-> FALSE,
             value |-> Truncate(SortResults(ToResults(st.scores), <<>>), n),
             index |-> st.index]

\* ------------------------------------------------------------------ inputs
Levels == 0..MaxLevel
Documents ==
    {[id |-> i, title |-> t[1], body |-> t[2], tags |-> <<>>, access_level |-> l] :
        i \in DocIds, t \in DocTexts, l \in Levels}
RECURSIVE SeqsUpTo(_, _)
SeqsUpTo(S, n) ==
    IF n = 0 THEN {<<>>}
    ELSE LET shorter == SeqsUpTo(S, n - 1)
         IN shorter \cup {Append(s, x) : s \in {t \in shorter : Len(t) = n - 1}, x \in S}
\* document collections: the id is a unique key within a collection; the
\* collections are listed in ascending order of id
AscendingIds(docs) == \A i \in 1..(Len(docs) - 1) : StrLess(docs[i].id, docs[i + 1].id)
Corpora == {docs \in SeqsUpTo(Documents, MaxDocs) : AscendingIds(docs)}
RECURSIVE Concat(_)
Concat(pieces) == IF pieces = <<>> THEN <<>> ELSE Head(pieces) \o Concat(Tail(pieces))
Queries == {Concat(ps) : ps \in SeqsUpTo(QueryPieces, MaxQueryPieces)}
AccessContexts == {None} \cup {Some(l) : l \in Levels}
ResultCaps == (0 - MaxResults)..MaxResults
\* the documents argument of search: the indexed collection, or that
\* collection without its first document
DocumentArgs(docs) == {docs} \cup (IF docs = <<>> THEN {} ELSE {Tail(docs)})

\* ----------------------------------------------------------- state machine
\* corpus: the collection given to build_index; index: what it returned;
\* documents, query, max_results, user_access_level: the arguments of the
\* search call; results: the list it returned; pc: "start", "indexed", then
\* "returned" or, when a KeyError escaped, "raised"
TypeOK ==
    /\ corpus \in Corpora
    /\ pc \in {"start", "indexed", "returned", "raised"}
    /\ pc # "start" => index = build_index(corpus)
    /\ documents \in DocumentArgs(corpus) \cup {<<>>}
    /\ query \in Queries
    /\ max_results \in ResultCaps
    /\ user_access_level \in AccessContexts
    /\ \A i \in 1..Len(results) : results[i].doc_id \in DocIds /\ results[i].score \in Int

\* before build_index is called
SearchInit ==
    /\ corpus = <<>>
    /\ index = <<>>
    /\ documents = <<>>
    /\ query = <<>>
    /\ max_results = 0
    /\ user_access_level = None
    /\ results = <<>>
    /\ pc = "start"
\* the other components, not in use
TokenizeIdle == tok_text = <<>> /\ tok_tokens = <<>>
PrecisionIdle == gold_relevant = {} /\ retrieved = <<>> /\ prec_k = 0 /\ precision = <<0, 1>>
TaskIdle ==
    /\ starting_id = 0 /\ next_id = 0 /\ tasks = <<>>
    /\ arg_priority = None /\ outcome = "none" /\ created = <<>>
ChunkIdle ==
    /\ chunker = [chunk_size |-> 0, overlap |-> 0]
    /\ document = <<>>
    /\ sp = 0 /\ ep = 0 /\ id_ = 0
    /\ chunks = <<>>
    /\ chunk_pc = "idle"
BufferIdle ==
    /\ buffer_size = 0 /\ buffer = <<>> /\ buffer_index = 0 /\ buffer_count = 0
    /\ added = <<>> /\ iterated = <<>>

Init ==
    /\ SearchInit
    /\ TokenizeIdle /\ PrecisionIdle /\ TaskIdle /\ ChunkIdle /\ BufferIdle

\* index = build_index(docs)
BuildIndex ==
    /\ pc = "start"
    /\ \E docs \in Corpora :
        /\ corpus' = docs
        /\ index' = build_index(docs)
    /\ pc' = "indexed"
    /\ UNCHANGED <<documents, query, max_results, user_access_level, results>>
    /\ UNCHANGED <<tokenizeVars, precisionVars, taskVars, chunkVars, bufferVars>>

\* results = search(index, docs, q, n, ual)
Search ==
    /\ pc = "indexed"
    /\ \E docs \in DocumentArgs(corpus), q \in Queries, n \in ResultCaps,
          ual \in AccessContexts :
        LET r == search(index, docs, q, n, ual)
        IN /\ documents' = docs
           /\ query' = q
           /\ max_results' = n
           /\ user_access_level' = ual
           /\ results' = r.value
           /\ index' = r.index
           /\ pc' = IF r.raised THEN "raised" ELSE "returned"
    /\ UNCHANGED corpus
    /\ UNCHANGED <<tokenizeVars, precisionVars, taskVars, chunkVars, bufferVars>>

Next == BuildIndex \/ Search

Spec == Init /\ [][Next]_vars

\* ------------------------------- build_index on any collection, then searches
\* collections in any order, ids repeated or not; two access levels suffice,
\* build_index does not read access_level
AnyDocuments == {d \in Documents : d.access_level \in {0, MaxLevel}}
AnyCorpora == SeqsUpTo(AnyDocuments, MaxDocs)
\* index = build_index(docs)
BuildAny ==
    /\ pc = "start"
    /\ \E docs \in AnyCorpora :
        /\ corpus' = docs
        /\ index' = build_index(docs)
    /\ pc' = "indexed"
    /\ UNCHANGED <<documents, query, max_results, user_access_level, results>>
    /\ UNCHANGED <<tokenizeVars, precisionVars, taskVars, chunkVars, bufferVars>>
\* results = search(index, corpus, q, MaxResults), user_access_level left to
\* its default None, on the same index object, call after call
SearchAgain ==
    /\ pc # "start"
    /\ \E q \in Queries :
        LET r == search(index, corpus, q, MaxResults, None)
        IN /\ documents' = corpus
           /\ query' = q
           /\ max_results' = MaxResults
           /\ user_access_level' = None
           /\ results' = r.value
           /\ index' = r.index
           /\ pc' = IF r.raised THEN "raised" ELSE "returned"
    /\ UNCHANGED corpus
    /\ UNCHANGED <<tokenizeVars, precisionVars, taskVars, chunkVars, bufferVars>>
NextBuild == BuildAny \/ SearchAgain
SpecBuild == Init /\ [][NextBuild]_vars

\* ------------------------- the same collection in different orders
\* the orderings of a list of n documents
Orderings(n) == {p \in [1..n -> 1..n] : \A i, j \in 1..n : p[i] = p[j] => i = j}
Reordered(docs, p) == [i \in 1..Len(docs) |-> docs[p[i]]]
\* collections with unique ids, in any order
UniqueCorpora ==
    {docs \in AnyCorpora : \A i, j \in 1..Len(docs) : docs[i].id = docs[j].id => i = j}
\* no restriction, a level that hides the documents of level MaxLevel, and
\* the level that shows them
OrderContexts == {None, Some(1), Some(MaxLevel)}
\* index = build_index(docs)
BuildUnique ==
    /\ pc = "start"
    /\ \E docs \in UniqueCorpora :
        /\ corpus' = docs
        /\ index' = build_index(docs)
    /\ pc' = "indexed"
    /\ UNCHANGED <<documents, query, max_results, user_access_level, results>>
    /\ UNCHANGED <<tokenizeVars, precisionVars, taskVars, chunkVars, bufferVars>>
\* results = search(index, docs, q, n, ual), docs being the indexed
\* collection in an order of its own; n truncates (1) or not (MaxResults)
SearchReordered ==
    /\ pc = "indexed"
    /\ \E p \in Orderings(Len(corpus)), q \in Queries, n \in {1, MaxResults},
          ual \in OrderContexts :
        LET docs == Reordered(corpus, p)
            r == search(index, docs, q, n, ual)
        IN /\ documents' = docs
           /\ query' = q
           /\ max_results' = n
           /\ user_access_level' = ual
           /\ results' = r.value
           /\ index' = r.index
           /\ pc' = IF r.raised THEN "raised" ELSE "returned"
    /\ UNCHANGED corpus
    /\ UNCHANGED <<tokenizeVars, precisionVars, taskVars, chunkVars, bufferVars>>
NextOrder == BuildUnique \/ SearchReordered
SpecOrder == Init /\ [][NextOrder]_vars

\* ------------------------------------------------- tokenize, called alone
\* ASCII characters of the texts: letters of both cases, a digit, a space, a
\* comma and a tab
TextChars == {"a", "B", "1", " ", ",", "\t"}
Texts == SeqsUpTo(TextChars, MaxTextLen)
\* tokens = tokenize(t)
Tokenize ==
    /\ tok_text = <<>>
    /\ \E t \in Texts :
        /\ tok_text' = t
        /\ tok_tokens' = tokenize(t)
    /\ UNCHANGED <<searchVars, precisionVars, taskVars, chunkVars, bufferVars>>
NextTokenize == Tokenize
SpecTokenize == Init /\ [][NextTokenize]_vars

\* ---------------------------------------------------------- precision_at_k
\* for res in lst: if res.doc_id in gold: count += 1
RECURSIVE CountRelevant(_, _)
CountRelevant(lst, gold) ==
    IF lst = <<>> THEN 0
    ELSE (IF Head(lst).doc_id \in gold THEN 1 ELSE 0) + CountRelevant(Tail(lst), gold)
\* a precision whose denominator is the number of entries considered
PrecisionOverConsidered(gold, lst, k) ==
    IF k <= 0 THEN <<0, 1>>
    ELSE LET top == SliceTo(lst, k)
         IN IF top = <<>> THEN <<0, 1>> ELSE <<CountRelevant(top, gold), Len(top)>>
\* the float returned, as the fraction <<numerator, denominator>>; 0.0 is <<0, 1>>
precision_at_k(gold, lst, k) ==
    IF k <= 0 THEN <<0, 1>>
    ELSE <<CountRelevant(SliceTo(lst, k), gold), k>>
\* ranked lists of SearchResult, a doc_id may occur more than once
RetrievedLists == SeqsUpTo({[doc_id |-> i, score |-> 1] : i \in DocIds}, MaxRetrieved)
Cutoffs == (0 - 1)..MaxK
\* precision = precision_at_k(gold, lst, k)
PrecisionAtK ==
    /\ PrecisionIdle
    /\ \E gold \in SUBSET DocIds, lst \in RetrievedLists, k \in Cutoffs :
        /\ gold_relevant' = gold
        /\ retrieved' = lst
        /\ prec_k' = k
        /\ precision' = precision_at_k(gold, lst, k)
    /\ UNCHANGED <<searchVars, tokenizeVars, taskVars, chunkVars, bufferVars>>
NextPrecision == PrecisionAtK
SpecPrecision == Init /\ [][NextPrecision]_vars

\* ------------------------------------- TaskService on InMemoryTaskRepository
MinPriority == 1
MaxPriority == 5
\* Task.validate_priority
validate_priority(priority) == priority >= MinPriority /\ priority <= MaxPriority
Task(id, title, is_done, priority) ==
    [id |-> id, title |-> title, is_done |-> is_done, priority |-> priority]
\* a create_task that takes the id before it validates the priority
create_task_counts_first(nid, repo, title, priority) ==
    IF ~validate_priority(priority) \/ DictHas(repo, nid)
    THEN [raised |-> TRUE, next_id |-> nid + 1, repo |-> repo, id |-> nid]
    ELSE [raised |-> FALSE, next_id |-> nid + 1,
          repo |-> DictSet(repo, nid, Task(nid, title, FALSE, priority)), id |-> nid]
\* TaskService.create_task on a service whose _next_id is nid and whose
\* repository holds repo; InMemoryTaskRepository.add raises ValueError when
\* the id is already stored; id is the id of the task returned
create_task(nid, repo, title, priority) ==
    IF ~validate_priority(priority)
    THEN [raised |-> TRUE, next_id |-> nid, repo |-> repo, id |-> nid]
    ELSE IF DictHas(repo, nid)
    THEN [raised |-> TRUE, next_id |-> nid, repo |-> repo, id |-> nid]
    ELSE [raised |-> FALSE, next_id |-> nid + 1,
          repo |-> DictSet(repo, nid, Task(nid, title, FALSE, priority)), id |-> nid]
\* InMemoryTaskRepository.mark_done: self._tasks[task_id] raises KeyError for
\* an id that is not stored
mark_done(repo, task_id) ==
    IF DictHas(repo, task_id)
    THEN [raised |-> FALSE,
          repo |-> DictSet(repo, task_id, [DictGet(repo, task_id) EXCEPT !.is_done = TRUE])]
    ELSE [raised |-> TRUE, repo |-> repo]
StartingIds == {0, 1, 100}
\* the priorities around both ends of the valid range
Priorities == {MinPriority - 1, MinPriority, MaxPriority, MaxPriority + 1}
\* the repository handed to the service: empty, or from_tasks with one task
\* whose id the service will reach
InitialRepos(s) == {<<>>, DictSet(<<>>, s + 1, Task(s + 1, "old", FALSE, MinPriority))}
\* service = TaskService(repo, starting_id = s)
NewService ==
    /\ outcome = "none"
    /\ \E s \in StartingIds :
        /\ starting_id' = s
        /\ next_id' = s
        /\ \E repo \in InitialRepos(s) : tasks' = repo
    /\ outcome' = "built"
    /\ UNCHANGED <<arg_priority, created>>
    /\ UNCHANGED <<searchVars, tokenizeVars, precisionVars, chunkVars, bufferVars>>
\* task = service.create_task("new", priority); created lists the ids of the
\* tasks returned so far
CreateTask ==
    /\ outcome # "none"
    /\ Len(created) < MaxTasks
    /\ \E priority \in Priorities :
        LET r == create_task(next_id, tasks, "new", priority)
        IN /\ arg_priority' = Some(priority)
           /\ next_id' = r.next_id
           /\ tasks' = r.repo
           /\ outcome' = IF r.raised THEN "ValueError" ELSE "returned"
           /\ created' = IF r.raised THEN created ELSE Append(created, r.id)
    /\ UNCHANGED starting_id
    /\ UNCHANGED <<searchVars, tokenizeVars, precisionVars, chunkVars, bufferVars>>
\* service.complete_task(task_id)
CompleteTask ==
    /\ outcome # "none"
    /\ \E task_id \in starting_id..(starting_id + MaxTasks) :
        LET r == mark_done(tasks, task_id)
        IN /\ tasks' = r.repo
           /\ outcome' = IF r.raised THEN "KeyError" ELSE "returned"
    /\ arg_priority' = None
    /\ UNCHANGED <<starting_id, next_id, created>>
    /\ UNCHANGED <<searchVars, tokenizeVars, precisionVars, chunkVars, bufferVars>>
NextTasks == NewService \/ CreateTask \/ CompleteTask
SpecTasks == Init /\ [][NextTasks]_vars

\* ------------------------------------------- DocumentChunker, FIXED_SIZE
\* s[a:b] of Python: a negative bound counts from the end, both are clipped
PySlice(s, a, b) ==
    LET n == Len(s)
        Clip(i) == IF i < 0 THEN (IF i + n < 0 THEN 0 ELSE i + n) ELSE (IF i > n THEN n ELSE i)
        lo == Clip(a)
        hi == Clip(b)
    IN IF lo < hi THEN SubSeq(s, lo + 1, hi) ELSE <<>>
\* _estimate_tokens
EstimateTokens(txt) == Len(txt) \div 4
Chunk(chunk_id, txt, start_pos, end_pos) ==
    [chunk_id |-> chunk_id, text |-> txt, start_pos |-> start_pos, end_pos |-> end_pos,
     token_count |-> EstimateTokens(txt)]
\* the documents: one of each length, all characters distinct
Alphabet == <<"a", "b", "c", "d", "e", "f", "g", "h">>
ChunkDocs == {SubSeq(Alphabet, 1, n) : n \in 0..MaxDocLen}
\* sp, ep, id_ and chunks are followed for MaxLoops iterations: a loop that
\* ends moves ep forward by chunk_size - overlap >= 1 from chunk_size >= 1, so
\* it takes fewer than MaxDocLen iterations; one that is still running after
\* MaxLoops iterations moves ep by chunk_size - overlap <= 0 (BeyondHorizon)
MaxLoops == MaxDocLen + 1
\* chunker = DocumentChunker(FIXED_SIZE, chunk_size, overlap)
NewChunker ==
    /\ chunk_pc = "idle"
    /\ \E cs \in 1..MaxChunkSize, ov \in 0..MaxOverlap :
        chunker' = [chunk_size |-> cs, overlap |-> ov]
    /\ chunk_pc' = "ready"
    /\ UNCHANGED <<document, sp, ep, id_, chunks>>
    /\ UNCHANGED <<searchVars, tokenizeVars, precisionVars, taskVars, bufferVars>>
\* chunker.chunk_document(doc): sp, ep, id_ = 0, self.chunk_size, 0; chunks = []
ChunkDocument ==
    /\ chunk_pc = "ready"
    /\ \E doc \in ChunkDocs : document' = doc
    /\ sp' = 0 /\ ep' = chunker.chunk_size /\ id_' = 0
    /\ chunks' = <<>>
    /\ chunk_pc' = "loop"
    /\ UNCHANGED chunker
    /\ UNCHANGED <<searchVars, tokenizeVars, precisionVars, taskVars, bufferVars>>
\* `while ep < doc_len`, the test found true
ChunkTest ==
    /\ chunk_pc = "loop"
    /\ ep < Len(document)
    /\ chunk_pc' = "body"
    /\ UNCHANGED <<chunker, document, sp, ep, id_, chunks>>
    /\ UNCHANGED <<searchVars, tokenizeVars, precisionVars, taskVars, bufferVars>>
\* the body of the loop; after MaxLoops iterations the body still runs and
\* control goes back to the test, the new values are no longer recorded: ep
\* does not grow any more, the test keeps its answer
ChunkBody ==
    /\ chunk_pc = "body"
    /\ IF id_ < MaxLoops
       THEN /\ chunks' = Append(chunks, Chunk(id_, PySlice(document, sp, ep), sp, ep - 1))
            /\ sp' = ep - chunker.overlap
            /\ ep' = (ep - chunker.overlap) + chunker.chunk_size
            /\ id_' = id_ + 1
       ELSE UNCHANGED <<chunks, sp, ep, id_>>
    /\ chunk_pc' = "loop"
    /\ UNCHANGED <<chunker, document>>
    /\ UNCHANGED <<searchVars, tokenizeVars, precisionVars, taskVars, bufferVars>>
\* the loop is left: the rest of the document, if any, is the last chunk
ChunkReturn ==
    /\ chunk_pc = "loop"
    /\ ~(ep < Len(document))
    /\ chunks' = IF sp < Len(document)
                 THEN Append(chunks, Chunk(id_, PySlice(document, sp, Len(document)), sp,
                                           Len(document) - 1))
                 ELSE chunks
    /\ chunk_pc' = "returned"
    /\ UNCHANGED <<chunker, document, sp, ep, id_>>
    /\ UNCHANGED <<searchVars, tokenizeVars, precisionVars, taskVars, bufferVars>>
NextChunk == NewChunker \/ ChunkDocument \/ ChunkTest \/ ChunkBody \/ ChunkReturn
SpecChunk == Init /\ [][NextChunk]_vars
\* a call that has started keeps running: the test, the body and the code
\* after the loop are taken whenever they can be
FairSpecChunk ==
    /\ Init /\ [][NextChunk]_vars
    /\ WF_vars(ChunkTest) /\ WF_vars(ChunkBody) /\ WF_vars(ChunkReturn)
\* a call still in the loop after MaxLoops iterations has chunk_size <= overlap
BeyondHorizon ==
    (chunk_pc \in {"loop", "body"} /\ id_ = MaxLoops /\ ep < Len(document)) =>
        chunker.chunk_size <= chunker.overlap

\* ---------------------------------------------------------- CircularBuffer
\* a slot of the buffer holds None or an item, Some(v)
Items == {Some(v) : v \in 1..MaxItem}
Min(a, b) == IF a <= b THEN a ELSE b
\* lst[a:b] for 0 <= a <= b <= len(lst)
ListSlice(lst, a, b) == SubSeq(lst, a + 1, b)
\* an iteration that returns the full buffer from its first slot
BufferIterUnrotated(buf, idx, cnt, size) ==
    IF cnt = 0 THEN <<>>
    ELSE IF cnt < size THEN ListSlice(buf, 0, cnt)
    ELSE buf
\* CircularBuffer.__iter__, as the list it iterates over
BufferIter(buf, idx, cnt, size) ==
    IF cnt = 0 THEN <<>>
    ELSE IF cnt < size THEN ListSlice(buf, 0, cnt)
    ELSE ListSlice(buf, idx, Len(buf)) \o ListSlice(buf, 0, idx)
\* b = CircularBuffer(n)
NewBuffer ==
    /\ buffer_size = 0
    /\ \E n \in 1..MaxBufSize :
        /\ buffer_size' = n
        /\ buffer' = [i \in 1..n |-> None]
    /\ buffer_index' = 0
    /\ buffer_count' = 0
    /\ UNCHANGED <<added, iterated>>
    /\ UNCHANGED <<searchVars, tokenizeVars, precisionVars, taskVars, chunkVars>>
\* b.add(item); added lists the items added so far
Add ==
    /\ buffer_size >= 1
    /\ Len(added) < MaxAdds
    /\ \E item \in Items :
        /\ buffer' = [buffer EXCEPT ![buffer_index + 1] = item]
        /\ added' = Append(added, item)
    /\ buffer_index' = (buffer_index + 1) % buffer_size
    /\ buffer_count' = Min(buffer_count + 1, buffer_size)
    /\ UNCHANGED <<buffer_size, iterated>>
    /\ UNCHANGED <<searchVars, tokenizeVars, precisionVars, taskVars, chunkVars>>
\* iterated = list(b)
Iterate ==
    /\ buffer_size >= 1
    /\ iterated' = BufferIter(buffer, buffer_index, buffer_count, buffer_size)
    /\ UNCHANGED <<buffer_size, buffer, buffer_index, buffer_count, added>>
    /\ UNCHANGED <<searchVars, tokenizeVars, precisionVars, taskVars, chunkVars>>
NextBuffer == NewBuffer \/ Add \/ Iterate
SpecBuffer == Init /\ [][NextBuffer]_vars

\* ------------------------------------------------------------------ claims
Returned == pc = "returned"
Called == pc \in {"returned", "raised"}
ResultIds == {results[i].doc_id : i \in 1..Len(results)}
QueryTokens == tokenize(query)
\* index[t][id], or 0 when the index has no such entry
Freq(t, id) ==
    IF DictHas(index, t) /\ DictHas(DictGet(index, t), id)
    THEN DictGet(DictGet(index, t), id) ELSE 0
RECURSIVE SumFreq(_, _)
SumFreq(tokens, id) ==
    IF tokens = <<>> THEN 0 ELSE Freq(Head(tokens), id) + SumFreq(Tail(tokens), id)
\* the accumulated score of a document id over every token occurrence of the query
Accumulated(id) == SumFreq(QueryTokens, id)
\* the ids some token maps to in the index
Matching(tokens) ==
    {id \in DocIds : \E i \in 1..Len(tokens) :
        DictHas(index, tokens[i]) /\ DictHas(DictGet(index, tokens[i]), id)}
MatchingIds == Matching(QueryTokens)
NotTruncating == max_results >= Cardinality(MatchingIds)
\* the access levels the documents argument gives to a document id
LevelsOf(id) == {documents[j].access_level : j \in {k \in 1..Len(documents) : documents[k].id = id}}

\* C1: for every restriction level L supplied as user_access_level (L = 0
\* included), search returns no document whose access_level is greater than L.
C1_NoResultAboveLevel ==
    (Returned /\ user_access_level # None) =>
        \A id \in ResultIds : \A l \in LevelsOf(id) : l <= Val(user_access_level)

\* C2: a document with access_level 0 that matches a query token is returned
\* for every user_access_level (None included) when max_results does not truncate.
C2_LevelZeroNeverFiltered ==
    Returned =>
        LET matching == MatchingIds
        IN max_results >= Cardinality(matching) =>
            \A id \in matching : 0 \in LevelsOf(id) => id \in ResultIds
C2_Witness ==
    /\ Returned /\ NotTruncating
    /\ user_access_level = Some(1)
    /\ \E id \in MatchingIds : 0 \in LevelsOf(id) /\ id \in ResultIds
    /\ \E id \in MatchingIds : 2 \in LevelsOf(id) /\ id \notin ResultIds

\* C3: with user_access_level None and max_results not truncating, the returned
\* doc_ids are exactly the documents with a positive accumulated score,
\* whatever their access_level.
C3_NoneExcludesNothing ==
    (Returned /\ user_access_level = None) =>
        LET tokens == QueryTokens
        IN max_results >= Cardinality(Matching(tokens)) =>
            ResultIds = {id \in DocIds : SumFreq(tokens, id) > 0}
C3_Witness ==
    /\ Returned /\ user_access_level = None /\ NotTruncating
    /\ \E id \in ResultIds : MaxLevel \in LevelsOf(id)
    /\ \E id \in ResultIds : 0 \in LevelsOf(id)

\* C4: a document whose accumulated score is 0 never appears in the result,
\* and every returned SearchResult has score >= 1.
C4_NoZeroScore ==
    Returned =>
        LET tokens == QueryTokens
        IN /\ \A id \in DocIds : SumFreq(tokens, id) = 0 => id \notin ResultIds
           /\ \A i \in 1..Len(results) : results[i].score >= 1
C4_Witness ==
    /\ Returned
    /\ results # <<>>
    /\ \E j \in 1..Len(documents) :
        Accumulated(documents[j].id) = 0 /\ documents[j].id \notin ResultIds

\* C5: adjacent results are ordered by score descending, and among equal
\* scores by doc_id ascending.
C5_Ordered ==
    Returned =>
        \A i \in 1..(Len(results) - 1) :
            \/ results[i].score > results[i + 1].score
            \/ /\ results[i].score = results[i + 1].score
               /\ StrLess(results[i].doc_id, results[i + 1].doc_id)
C5_Witness ==
    /\ Returned
    /\ Len(results) >= 2
    /\ results[1].score = results[2].score
    /\ Len(QueryTokens) >= 2

\* the list search returns when max_results does not bound it
FullRanked == search(index, documents, query, Len(corpus), user_access_level).value

\* C6: for max_results >= 0 the result has at most max_results entries and is
\* exactly the first max_results entries of the full ranked list.
C6_Prefix ==
    (Returned /\ max_results >= 0) =>
        LET full == FullRanked
        IN /\ Len(results) <= max_results
           /\ Len(results) = (IF max_results < Len(full) THEN max_results ELSE Len(full))
           /\ \A i \in 1..Len(results) : results[i] = full[i]
C6_Witness ==
    /\ Returned
    /\ max_results = 1
    /\ Len(FullRanked) = 2
    /\ Len(results) = 1

\* C7: for every max_results <= 0 (zero and every negative value) search
\* returns an empty sequence.
C7_NonPositiveCapIsEmpty ==
    (Returned /\ max_results <= 0) => results = <<>>

\* C8: search never raises, also when the index refers to a document id that
\* is absent from the documents argument.
C8_NeverRaises == pc # "raised"

\* C9: when the query has no tokens, the index is empty, or no query token is
\* a key of the index, search raises nothing and returns the empty sequence.
NoTokenInIndex ==
    LET tokens == QueryTokens
    IN \A i \in 1..Len(tokens) : ~DictHas(index, tokens[i])
C9_NoMatchIsEmpty ==
    (Called /\ (index = <<>> \/ QueryTokens = <<>> \/ NoTokenInIndex)) =>
        (Returned /\ results = <<>>)
C9_Witness ==
    /\ Returned
    /\ QueryTokens # <<>>
    /\ index # <<>>
    /\ NoTokenInIndex
    /\ documents # corpus
    /\ max_results < 0

\* C10: the score of every returned document is the sum, over every token
\* occurrence of the tokenized query, of index[token][doc_id].
C10_ScoreIsSum ==
    Returned =>
        LET tokens == QueryTokens
        IN \A i \in 1..Len(results) : results[i].score = SumFreq(tokens, results[i].doc_id)
C10_Witness ==
    /\ Returned
    /\ \E i, j \in 1..Len(QueryTokens) : i # j /\ QueryTokens[i] = QueryTokens[j]
    /\ Len(results) >= 2
    /\ results[1].score > results[2].score
    /\ results[2].score >= 2

\* the letters and digits [a-z0-9] among the characters of the texts
LowerAlnum == {"a", "b", "0", "1"}
Lowered == [i \in 1..Len(tok_text) |-> Lower(tok_text[i])]
\* the maximal runs <<i, j>> of letters and digits of the lowercased text
Runs ==
    LET low == Lowered
        n == Len(low)
    IN {r \in (1..n) \X (1..n) :
           /\ r[1] <= r[2]
           /\ \A p \in r[1]..r[2] : low[p] \in LowerAlnum
           /\ (r[1] = 1 \/ low[r[1] - 1] \notin LowerAlnum)
           /\ (r[2] = n \/ low[r[2] + 1] \notin LowerAlnum)}

\* C14: for an ASCII text, tokenize returns exactly the maximal runs of letters
\* and digits of the lowercased text, in their order; every token is non-empty
\* and made of [a-z0-9] only; a text without letter or digit gives no token.
C14_TokensAreRuns ==
    LET runs == Runs
        low == Lowered
    IN /\ Len(tok_tokens) = Cardinality(runs)
       /\ \A r \in runs :
            tok_tokens[Cardinality({q \in runs : q[1] <= r[1]})] = SubSeq(low, r[1], r[2])
       /\ \A i \in 1..Len(tok_tokens) :
            /\ tok_tokens[i] # <<>>
            /\ \A p \in 1..Len(tok_tokens[i]) : tok_tokens[i][p] \in LowerAlnum
C14_Witness ==
    /\ Len(tok_tokens) = 2
    /\ \E p \in 1..Len(tok_text) : tok_text[p] = ","
    /\ \E p \in 1..Len(tok_text) : tok_text[p] = "B"
    /\ \E p \in 1..Len(tok_text) : tok_text[p] = "1"

\* the number of occurrences of term in the tokens of title + " " + body
Occurrences(term, doc) ==
    LET toks == tokenize(doc.title \o <<" ">> \o doc.body)
    IN Cardinality({i \in 1..Len(toks) : toks[i] = term})
DictKeys(d) == {d[i].k : i \in 1..Len(d)}
\* every term of the index or of a document of the collection
Terms ==
    DictKeys(index) \cup
    UNION {LET toks == tokenize(corpus[j].title \o <<" ">> \o corpus[j].body)
           IN {toks[i] : i \in 1..Len(toks)} : j \in 1..Len(corpus)}
UniqueIds(docs) == \A i, j \in 1..Len(docs) : docs[i].id = docs[j].id => i = j

\* C11: for a collection with unique ids, index[term][doc_id] exists exactly
\* when term occurs in tokenize(title + " " + body) of that document, and its
\* value is the number of occurrences of term in that token sequence.
C11_EntriesAreCounts ==
    (pc = "indexed" /\ UniqueIds(corpus)) =>
        \A term \in Terms, id \in DocIds :
            LET docs == {j \in 1..Len(corpus) : corpus[j].id = id}
                has == DictHas(index, term) /\ DictHas(DictGet(index, term), id)
            IN /\ has <=> \E j \in docs : Occurrences(term, corpus[j]) > 0
               /\ has => \A j \in docs : Freq(term, id) = Occurrences(term, corpus[j])
C11_Witness ==
    /\ pc = "indexed" /\ UniqueIds(corpus) /\ Len(corpus) = 2
    /\ StrLess(corpus[2].id, corpus[1].id)
    /\ \E term \in Terms : Freq(term, corpus[1].id) = 2 /\ Freq(term, corpus[2].id) = 1
    /\ \E term \in Terms : Freq(term, corpus[1].id) = 0 /\ Freq(term, corpus[2].id) = 1

\* C12: in the index build_index returned, every term key has a non-empty
\* inner mapping and every frequency is >= 1, also after any number of search
\* calls on that index.
C12_InnerNonEmpty ==
    pc # "start" =>
        \A i \in 1..Len(index) :
            /\ index[i].v # <<>>
            /\ \A j \in 1..Len(index[i].v) : index[i].v[j].v >= 1
C12_Witness ==
    /\ Called
    /\ index # <<>>
    /\ \E i \in 1..Len(QueryTokens) : ~DictHas(index, QueryTokens[i])

\* the mapping a dict stands for, whatever the order of insertion
AsMapping(d) == [k \in DictKeys(d) |-> DictGet(d, k)]
IndexAsMapping(idx) == [t \in DictKeys(idx) |-> AsMapping(DictGet(idx, t))]
OrderIndependent ==
    \A p \in Orderings(Len(corpus)) :
        IndexAsMapping(build_index(Reordered(corpus, p))) = IndexAsMapping(index)
\* the documents that share an id have the same title and body
SameContentPerId(docs) ==
    \A i, j \in 1..Len(docs) :
        docs[i].id = docs[j].id => docs[i].title = docs[j].title /\ docs[i].body = docs[j].body

\* C13 as stated: build_index returns the same index for every ordering of the
\* input documents, also when two of them share an id.
C13_AnyOrderSameIndex == pc = "indexed" => OrderIndependent
\* C13 amended: build_index returns the same index for every ordering of the
\* input documents when the documents that share an id have the same title and
\* body.
C13_SameContentAnyOrder == (pc = "indexed" /\ SameContentPerId(corpus)) => OrderIndependent
C13_Witness ==
    /\ pc = "indexed" /\ Len(corpus) = 2 /\ SameContentPerId(corpus)
    /\ corpus[1].id = corpus[2].id /\ corpus[1] # corpus[2]
    /\ index # <<>>

TopPositions == {i \in 1..Len(retrieved) : i <= prec_k}
\* the fraction <<n, d>> equals c / k
IsFraction(f, c, k) == f[2] > 0 /\ f[1] * k = c * f[2]

C16_SetOfIds ==
    prec_k > 0 =>
        IsFraction(precision,
                   Cardinality({retrieved[i].doc_id : i \in TopPositions} \cap gold_relevant),
                   prec_k)

\* the step is a create_task call: the only steps that leave a priority
\* argument behind
CreateCalled == arg_priority' # None /\ outcome' \in {"returned", "ValueError"}
ValidRange == 1..5
\* C18: for a TaskService built with starting_id s, the k-th successful
\* create_task call returns a task of id s + k - 1 that is stored in the
\* repository; a call with a priority outside 1..5 raises ValueError, stores
\* nothing and consumes no id.
C18_IdsInOrder ==
    [][CreateCalled /\ (outcome' = "returned" \/ Val(arg_priority') \notin ValidRange) =>
          IF Val(arg_priority') \notin ValidRange
          THEN outcome' = "ValueError" /\ tasks' = tasks /\ next_id' = next_id
               /\ created' = created
          ELSE /\ Len(created') = Len(created) + 1
               /\ \A k \in 1..Len(created') :
                    /\ created'[k] = starting_id + k - 1
                    /\ DictHas(tasks', created'[k])
                    /\ DictGet(tasks', created'[k]).id = created'[k]]_vars
C18_Witness ==
    /\ Len(created) = 2
    /\ outcome = "ValueError"
    /\ arg_priority = Some(6)
    /\ starting_id = 100
    /\ \E i \in 1..Len(tasks) : tasks[i].v.is_done

\* C19: for fixed-size chunking with 0 <= overlap < chunk_size and a non-empty
\* document, every chunk returned has chunk_id equal to its position in the
\* list, start_pos >= 0 and end_pos > start_pos.
C19_ChunkMetadata ==
    (/\ chunk_pc = "returned"
     /\ 0 <= chunker.overlap /\ chunker.overlap < chunker.chunk_size
     /\ document # <<>>) =>
        \A i \in 1..Len(chunks) :
            /\ chunks[i].chunk_id = i - 1
            /\ chunks[i].start_pos >= 0
            /\ chunks[i].end_pos > chunks[i].start_pos

\* the last n items added, oldest first
LastAdded(n) == [i \in 1..n |-> added[Len(added) - n + i]]
\* C20: for a CircularBuffer of size n >= 1, after any sequence of add calls,
\* iterating yields the last min(m, n) items added (m the number of add calls
\* so far) in order of insertion, oldest first, and count never exceeds n.
C20_LastItemsInOrder ==
    buffer_size >= 1 =>
        /\ buffer_count <= buffer_size
        /\ BufferIter(buffer, buffer_index, buffer_count, buffer_size)
             = LastAdded(Min(Len(added), buffer_size))
C20_Witness ==
    /\ buffer_size = 2
    /\ Len(added) = 3
    /\ added[2] # added[3]
    /\ iterated = <<added[2], added[3]>>

\* C21: visibility is monotone in the user's level: for the same index,
\* documents and query, max_results not truncating, and levels 0 <= L1 <= L2,
\* every document search returns for L1 is returned for L2 with the same score.
C21_MonotoneInLevel ==
    (Returned /\ user_access_level # None /\ NotTruncating) =>
        \A l2 \in Levels :
            l2 >= Val(user_access_level) =>
                LET higher == search(index, documents, query, max_results, Some(l2)).value
                IN \A i \in 1..Len(results) :
                       \E j \in 1..Len(higher) : higher[j] = results[i]

\* the collection in ascending order of id
Ascending(docs) ==
    Reordered(docs, CHOOSE p \in Orderings(Len(docs)) : AscendingIds(Reordered(docs, p)))
\* C22: for a collection with unique ids, search returns the same list for the
\* same query, max_results and user_access_level, whatever the order of the
\* documents sequence and the order in which build_index received the
\* documents: every call returns what the call on the collection in ascending
\* order of id returns.
C22_OrderOfInputsIrrelevant ==
    (Called /\ UniqueIds(corpus)) =>
        LET canon == Ascending(corpus)
            r == search(build_index(canon), canon, query, max_results, user_access_level)
        IN Returned /\ ~r.raised /\ results = r.value
C22_Witness ==
    /\ Returned /\ Len(corpus) = 2
    /\ ~AscendingIds(corpus) /\ documents # corpus
    /\ user_access_level = Some(1)
    /\ max_results = 1 /\ Len(results) = 1
    /\ Cardinality(MatchingIds) = 2
    /\ \A i \in 1..2 : corpus[i].access_level = 0
    /\ results[1].doc_id = corpus[2].id

\* C23: every doc_id appears at most once in the list search returns, also
\* when several query tokens, or a repeated one, match the same document.
C23_IdsDistinct ==
    Returned => \A i, j \in 1..Len(results) : results[i].doc_id = results[j].doc_id => i = j
C23_Witness ==
    /\ Returned /\ Len(results) = 2
    /\ \E m, n \in 1..Len(QueryTokens) :
        /\ QueryTokens[m] # QueryTokens[n]
        /\ \E r \in 1..Len(results) :
            /\ Freq(QueryTokens[m], results[r].doc_id) > 0
            /\ Freq(QueryTokens[n], results[r].doc_id) > 0

\* C24: chunk_document with the FIXED_SIZE strategy terminates for every
\* document and every configuration, chunk_size <= overlap included: a call
\* that has entered the loop returns.
C24_Terminates == (chunk_pc = "loop") ~> (chunk_pc = "returned")

====
